---- MODULE Spec2Model ----
(***************************************************************************)
(* Seismos KPI editor (Seismos_KPI_v1.py) and viewer (Seismos_Viewer_v1.py) *)
(* as a state machine over the Firestore collections they read and write.   *)
(*                                                                          *)
(* Strings that the code only compares for equality are TLA+ strings.       *)
(* Well names are sequences of one-character strings, because the code      *)
(* tests them with Python's substring operator and concatenates them into   *)
(* document ids.  Timestamps are whole hours since the start of the job;    *)
(* a per-well estimate is an exact fraction num/den of hours.               *)
(***************************************************************************)
EXTENDS Integers, Sequences, FiniteSets, TLC

VARIABLES jobs, kpi_data, quality, out

vars == <<jobs, kpi_data, quality, out>>

(* ------------------------------ bounds --------------------------------- *)

\* largest number of rows of an uploaded KPI sheet
MaxRows == 2
\* declared stage count of the well the quality checklist is filled in for
MaxStages == 2

(* --------------------------- generic helpers --------------------------- *)

Range(s) == {s[i] : i \in DOMAIN s}

SeqsUpTo(S, n) == UNION {[1..k -> S] : k \in 0..n}

\* Python: a in b, for strings
IsSubstring(a, b) ==
    \E i \in 0..(Len(b) - Len(a)) :
        \A k \in 1..Len(a) : b[i + k] = a[k]

RECURSIVE SumSeq(_)
SumSeq(s) == IF s = <<>> THEN 0 ELSE s[1] + SumSeq(Tail(s))

RECURSIVE MaxSeq(_)
\* Python max() / Series.max() of a non-empty sequence of integers
MaxSeq(s) ==
    IF Len(s) = 1 THEN s[1]
    ELSE LET m == MaxSeq(Tail(s)) IN IF s[1] >= m THEN s[1] ELSE m

(* ------------------------ Python dict (ordered) ------------------------ *)

\* A dict is a sequence of [key, val] items with distinct keys, in insertion
\* order.
DictKeys(d) == [i \in DOMAIN d |-> d[i].key]

DictHas(d, k) == \E i \in DOMAIN d : d[i].key = k

\* d.get(k, default)
DictGet(d, k, default) ==
    IF DictHas(d, k) THEN d[CHOOSE i \in DOMAIN d : d[i].key = k].val
    ELSE default

\* d[k] = v : an existing key keeps its position
DictSet(d, k, v) ==
    IF DictHas(d, k)
    THEN [i \in DOMAIN d |-> IF d[i].key = k THEN [key |-> k, val |-> v] ELSE d[i]]
    ELSE Append(d, [key |-> k, val |-> v])

(* ------------------------------ job form ------------------------------- *)

JobNumbers == {"25-052", "25-053"}
Operators == {"Seismos"}
Pads == {"Pad-1"}
PatternTypes == {"Sequential", "Simul", "Hybrid"}

\* well names typed into the form and found in the "Well Name" column
WellA == <<"A">>
WellB == <<"B">>
WellAB == <<"A", "B">>

Entry(name, stages) == [name |-> name, stages |-> stages]

\* the "Well Details" blocks (name, stages per well) that are submitted
JobFormEntries ==
    { <<Entry(WellA, 1)>>,
      <<Entry(WellB, 1), Entry(WellA, 3)>>,
      <<Entry(WellB, 2), Entry(WellB, 1)>> }

RECURSIVE WellsOf(_)
\* wells = {} ; for i in range(well_count): wells[well_name] = stages
WellsOf(entries) ==
    IF entries = <<>> THEN <<>>
    ELSE LET n == Len(entries)
             e == entries[n]
         IN DictSet(WellsOf(SubSeq(entries, 1, n - 1)), e.name, e.stages)

\* solo_wells = [w for w in wells if w not in simul_group]
SoloWells(wells, simul_group) ==
    SelectSeq(DictKeys(wells), LAMBDA w : w \notin simul_group)

JobDocument(job_id, operator, pad, wells, pattern_type, simul_group) ==
    [job_id |-> job_id, operator |-> operator, pad |-> pad, wells |-> wells,
     pattern_type |-> pattern_type, simul_group |-> simul_group,
     solo_wells |-> SoloWells(wells, simul_group)]

\* if submitted and job_id and operator and pad and wells
FormComplete(job_id, operator, pad, wells) ==
    job_id # "" /\ operator # "" /\ pad # "" /\ wells # <<>>

\* a save that does not look for the job
JobNeverExists(job_id) == FALSE

\* existing_job.exists
JobExists(job_id) == job_id \in DOMAIN jobs

\* the "Save Job" submit handler
SaveJob(job_id, operator, pad, entries, pattern_type, simul_group) ==
    LET wells == WellsOf(entries)
        form == [handler |-> "job_form", job_id |-> job_id,
                 operator |-> operator, pad |-> pad]
    IN /\ IF ~FormComplete(job_id, operator, pad, wells)
          THEN /\ jobs' = jobs
               /\ out' = form @@ [msg |-> "none"]
          ELSE IF JobExists(job_id)
          THEN /\ jobs' = jobs
               /\ out' = form @@ [msg |-> "error"]
          ELSE /\ jobs' = (job_id :> JobDocument(job_id, operator, pad, wells,
                                                 pattern_type, simul_group)) @@ jobs
               /\ out' = form @@ [msg |-> "success"]
       /\ UNCHANGED <<kpi_data, quality>>

\* the "Delete Selected Job" button: the job document goes, its
\* subcollections are not touched
DeleteJob(job_to_delete) ==
    /\ job_to_delete \in DOMAIN jobs
    /\ jobs' = [j \in DOMAIN jobs \ {job_to_delete} |-> jobs[j]]
    /\ out' = [handler |-> "delete", job_id |-> job_to_delete, msg |-> "success"]
    /\ UNCHANGED <<kpi_data, quality>>

NoDocs == [x \in {} |-> x]

InitJobs ==
    /\ jobs = NoDocs
    /\ kpi_data = [j \in JobNumbers |-> NoDocs]
    /\ quality = [j \in JobNumbers |-> NoDocs]
    /\ out = [handler |-> "start"]

NextJobs ==
    \/ \E job_id \in JobNumbers \cup {""}, operator \in Operators \cup {""},
          pad \in Pads \cup {""}, entries \in JobFormEntries,
          pattern_type \in PatternTypes :
          \E simul_group \in SUBSET Range(DictKeys(WellsOf(entries))) :
              SaveJob(job_id, operator, pad, entries, pattern_type, simul_group)
    \/ \E job_to_delete \in JobNumbers : DeleteJob(job_to_delete)

SpecJobs == InitJobs /\ [][NextJobs]_vars

(* ----------------------------- KPI upload ------------------------------ *)

\* pd.NaT: what a cell that is blank or does not parse becomes
NaT == -1

\* the text of the timestamp cells of a sheet, by hour
HourText == <<"2024-01-01 00:00", "2024-01-01 01:00">>
Hours == {h - 1 : h \in DOMAIN HourText}

\* a blank cell and a cell that is no date
BlankCell == ""
GarbageCell == "n/a"

\* the ("Start time", "End time") cells of the rows of the sheets: a blank
\* start, an end that is no date, and the pairs of hours that start or end
\* at the first hour
TimeCells ==
    {<<BlankCell, HourText[2]>>, <<HourText[1], GarbageCell>>}
        \cup {t \in Range(HourText) \X Range(HourText) :
                 t[1] = HourText[1] \/ t[2] = HourText[1]}

\* pd.to_datetime(cell, errors="coerce")
ToDatetime(cell) ==
    IF \E h \in Hours : HourText[h + 1] = cell
    THEN CHOOSE h \in Hours : HourText[h + 1] = cell
    ELSE NaT

\* wells and stage numbers found in the sheets
SheetWells == {WellA, WellAB}
SheetStages == {1}

\* one row of the "KPI" sheet
SheetRows ==
    {[well |-> w, stage |-> n, start |-> t[1], end |-> t[2]] :
        w \in SheetWells, n \in SheetStages, t \in TimeCells}

\* kpi_df["Start time"] = pd.to_datetime(...); kpi_df["End time"] = ...
Coerce(rows) ==
    [i \in DOMAIN rows |->
        [rows[i] EXCEPT !.start = ToDatetime(@), !.end = ToDatetime(@)]]

\* the rows dropna(subset=["Start time", "End time"]) keeps
HasTimes(row) == row.start # NaT /\ row.end # NaT

\* a dropna that looks at the start time only
DropnaStartOnly(df) == SelectSeq(df, LAMBDA row : row.start # NaT)

\* kpi_df = kpi_df.dropna(subset=["Start time", "End time"])
Dropna(df) == SelectSeq(df, HasTimes)

RECURSIVE Digits(_)
\* str(n) for n >= 0, one character per element
Digits(n) ==
    LET d == <<"0", "1", "2", "3", "4", "5", "6", "7", "8", "9">>
    IN IF n < 10 THEN <<d[n + 1]>> ELSE Digits(n \div 10) \o <<d[(n % 10) + 1]>>

\* f"{well}_stage_{int(stage)}"
DocId(well, stage) == well \o <<"_", "s", "t", "a", "g", "e", "_">> \o Digits(stage)

\* existing_ids = {doc.id for doc in stage_collection.stream()}
ExistingIds(store) == DOMAIN store

\* an upload that saves every row again
NewRowsUnfiltered(kpi_df, existing_ids) == kpi_df

\* new_kpi_df = kpi_df[~kpi_df["_id"].isin(existing_ids)]
NewRows(kpi_df, existing_ids) ==
    SelectSeq(kpi_df, LAMBDA row : DocId(row.well, row.stage) \notin existing_ids)

RECURSIVE SaveRows(_, _)
\* for _, row in new_kpi_df.iterrows(): stage_collection.document(doc_id).set(data)
SaveRows(store, new_kpi_df) ==
    IF new_kpi_df = <<>> THEN store
    ELSE LET n == Len(new_kpi_df)
             row == new_kpi_df[n]
             before == SaveRows(store, SubSeq(new_kpi_df, 1, n - 1))
             doc_id == DocId(row.well, row.stage)
         IN (doc_id :> row) @@ before

\* a fraction of hours, in lowest terms, den > 0
RECURSIVE Gcd(_, _)
Gcd(a, b) == IF b = 0 THEN a ELSE Gcd(b, a % b)
Abs(x) == IF x < 0 THEN -x ELSE x
Frac(num, den) ==
    LET g == Gcd(Abs(num), den) IN [num |-> num \div g, den |-> den \div g]
FracLeq(a, b) == a.num * b.den <= b.num * a.den

\* no estimate: the value of pad_end when none was computed
NoEstimate == [num |-> 0, den |-> 0]

\* the group of one well of kpi_df.groupby("Well Name")
Group(kpi_df, well) == SelectSeq(kpi_df, LAMBDA row : row.well = well)

\* the wells kpi_df.groupby("Well Name") iterates over
GroupedWells(kpi_df) == {kpi_df[i].well : i \in DOMAIN kpi_df}

\* job_data["wells"].get(well, 60)
DefaultStages == 60
TotalStagesKPI(wells, well) == DictGet(wells, well, DefaultStages)

\* a remaining count that is clamped at zero
StagesRemainingClamped(total_stages, stages_done) ==
    IF total_stages > stages_done THEN total_stages - stages_done ELSE 0

\* stages_remaining = total_stages - stages_done
StagesRemaining(total_stages, stages_done) == total_stages - stages_done

\* sum of kpi_df["Duration (hrs)"] over a group; its mean is this over the
\* number of rows
DurationSum(group) == SumSeq([i \in DOMAIN group |-> group[i].end - group[i].start])

\* last_end = group["End time"].max()
LastEnd(group) == MaxSeq([i \in DOMAIN group |-> group[i].end])

\* est_end = last_end + timedelta(hours=(stages_remaining * avg_duration)),
\* avg_duration = DurationSum(group) / stages_done
EstEnd(last_end, stages_remaining, duration_sum, stages_done) ==
    Frac(last_end * stages_done + stages_remaining * duration_sum, stages_done)

\* the body of "for well, group in grouped"
WellEstimate(wells, kpi_df, well) ==
    LET group == Group(kpi_df, well)
        total_stages == TotalStagesKPI(wells, well)
        stages_done == Len(group)
        stages_remaining == StagesRemaining(total_stages, stages_done)
        last_end == LastEnd(group)
    IN [total_stages |-> total_stages,
        stages_done |-> stages_done,
        stages_remaining |-> stages_remaining,
        avg_duration |-> Frac(DurationSum(group), stages_done),
        last_end |-> last_end,
        est_end |-> EstEnd(last_end, stages_remaining, DurationSum(group), stages_done)]

\* max(pad_estimates) of a non-empty list
MaxEstimate(pad_estimates) ==
    CHOOSE e \in pad_estimates : \A f \in pad_estimates : FracLeq(f, e)

\* group.sort_values("Start time")["Start time"].diff(), without its leading NaN
IdleHours(group) ==
    LET starts == SortSeq([i \in DOMAIN group |-> group[i].start],
                          LAMBDA a, b : a < b)
    IN [i \in 1..(Len(starts) - 1) |-> starts[i + 1] - starts[i]]

\* the file uploader holds no sheet
UploaderEmpty == out.handler # "kpi_upload"

\* the "if uploaded_file:" block, run when a sheet is put into the empty
\* uploader
UploadKpi(selected_job, rows) ==
    LET kpi_df == Dropna(Coerce(rows))
        stage_collection == kpi_data[selected_job]
        new_kpi_df == NewRows(kpi_df, ExistingIds(stage_collection))
        wells == jobs[selected_job].wells
        grouped == GroupedWells(kpi_df)
        est == [well \in grouped |-> WellEstimate(wells, kpi_df, well)]
        pad_estimates == {est[well].est_end : well \in grouped}
        page == [handler |-> "kpi_upload", selected_job |-> selected_job,
                 rows |-> rows, kpi_df |-> kpi_df, uploaded |-> Len(new_kpi_df),
                 est |-> est,
                 idle |-> [well \in grouped |-> IdleHours(Group(kpi_df, well))]]
    IN /\ UploaderEmpty
       /\ selected_job \in DOMAIN jobs
       /\ kpi_data' = [kpi_data EXCEPT
                          ![selected_job] = SaveRows(stage_collection, new_kpi_df)]
       /\ IF pad_estimates = {}
          THEN \* max() of an empty list raises ValueError
               out' = page @@ [pad_end |-> NoEstimate, fault |-> TRUE]
          ELSE out' = page @@ [pad_end |-> MaxEstimate(pad_estimates),
                               fault |-> FALSE]
       /\ UNCHANGED <<jobs, quality>>

\* the sheet is taken out of the uploader: the block is skipped
RemoveFile ==
    /\ out.handler = "kpi_upload"
    /\ out' = [handler |-> "idle"]
    /\ UNCHANGED <<jobs, kpi_data, quality>>

(* -------------------------- quality checklist -------------------------- *)

\* the options of the three select boxes of quality_form
PreSandOptions == {"Good", "Medium", "Bad", "No Usable Drop", "Drop not performed"}
PostSandOptions == {"Good", "Medium", "Bad", "No Usable Drop", "No post sand"}
SppOptions == {"Good", "Anomaly", "No Post Sand", "N/A"}

\* the options that get picked, and the comments that get typed
PreSandPicked == PreSandOptions \cap {"Good", "No Usable Drop"}
PostSandPicked == PostSandOptions \cap {"Good", "No post sand"}
SppPicked == SppOptions \cap {"Good", "Anomaly"}
CommentsTyped == {""}

\* a document id that leaves the stage out
QualityDocIdByWell(qc_well, qc_stage) == qc_well

\* f"{qc_well}_stage_{qc_stage}"
QualityDocId(qc_well, qc_stage) ==
    qc_well \o <<"_", "s", "t", "a", "g", "e", "_">> \o Digits(qc_stage)

\* the document qc_path.set(...) writes
QualityDocument(qc_well, qc_stage, pre_sand, post_sand, spp, comments) ==
    [well |-> qc_well, stage |-> qc_stage, pre_sand |-> pre_sand,
     post_sand |-> post_sand, spp |-> spp, comments |-> comments]

\* qc_path.set(doc): the document of that id is created or replaced
SetDocument(store, doc_id, doc) ==
    [id \in DOMAIN store \cup {doc_id} |-> IF id = doc_id THEN doc ELSE store[id]]

\* list(range(1, qc_doc["wells"][qc_well] + 1))
StageChoices(wells, qc_well) == 1..DictGet(wells, qc_well, 0)

\* the "Save Quality Entry" submit handler
SaveQuality(qc_job, qc_well, qc_stage, pre_sand, post_sand, spp, comments) ==
    /\ qc_job \in DOMAIN jobs
    /\ DictHas(jobs[qc_job].wells, qc_well)
    /\ qc_stage \in StageChoices(jobs[qc_job].wells, qc_well)
    /\ quality' = [quality EXCEPT ![qc_job] =
                      SetDocument(@, QualityDocId(qc_well, qc_stage),
                                  QualityDocument(qc_well, qc_stage, pre_sand,
                                                  post_sand, spp, comments))]
    /\ out' = [handler |-> "quality_form", qc_job |-> qc_job, qc_well |-> qc_well,
               qc_stage |-> qc_stage, pre_sand |-> pre_sand, post_sand |-> post_sand,
               spp |-> spp, comments |-> comments, msg |-> "success"]
    /\ UNCHANGED <<jobs, kpi_data>>

(* ------------------------------- viewer -------------------------------- *)

\* the code points of the condition names, which sorted() compares
CodePoints ==
    ("Good" :> <<71, 111, 111, 100>>) @@
    ("Medium" :> <<77, 101, 100, 105, 117, 109>>) @@
    ("Bad" :> <<66, 97, 100>>) @@
    ("No Usable Drop" :> <<78, 111, 32, 85, 115, 97, 98, 108, 101, 32, 68, 114, 111, 112>>) @@
    ("Drop not performed" :> <<68, 114, 111, 112, 32, 110, 111, 116, 32, 112, 101, 114, 102, 111, 114, 109, 101, 100>>) @@
    ("No post sand" :> <<78, 111, 32, 112, 111, 115, 116, 32, 115, 97, 110, 100>>)

RECURSIVE SeqLess(_, _)
\* Python's < on strings, given as code points
SeqLess(a, b) ==
    IF a = <<>> THEN b # <<>>
    ELSE IF b = <<>> THEN FALSE
    ELSE IF a[1] # b[1] THEN a[1] < b[1]
    ELSE SeqLess(Tail(a), Tail(b))

StrLess(a, b) == SeqLess(CodePoints[a], CodePoints[b])

RECURSIVE Sorted(_)
\* sorted(set(...)) of condition names
Sorted(S) ==
    IF S = {} THEN <<>>
    ELSE LET m == CHOOSE c \in S : \A d \in S \ {c} : StrLess(c, d)
         IN <<m>> \o Sorted(S \ {m})

\* total_stages of the Stage Completion Summary: the declared count, else that
\* of the first declared well whose name contains or is contained in
\* well_name, else 0
TotalStagesViewer(wells, well_name) ==
    IF DictHas(wells, well_name) THEN DictGet(wells, well_name, 0)
    ELSE LET hits == {i \in DOMAIN wells :
                         \/ IsSubstring(wells[i].key, well_name)
                         \/ IsSubstring(well_name, wells[i].key)}
         IN IF hits = {} THEN 0
            ELSE wells[CHOOSE i \in hits : \A k \in hits : i <= k].val

\* a stored timestamp, read back through pd.to_datetime(errors="coerce")
ReadDatetime(t) == IF t \in Hours THEN t ELSE NaT

\* kpi_df of the viewer: the stage documents, coerced, without the rows that
\* lack a time; a function of the document ids
ViewerDf(store) ==
    LET df == [id \in DOMAIN store |->
                  [store[id] EXCEPT !.start = ReadDatetime(@),
                                    !.end = ReadDatetime(@)]]
    IN [id \in {i \in DOMAIN df : HasTimes(df[i])} |-> df[id]]

\* one line of the Stage Completion Summary
SummaryLine(wells, kpi_df, well_name) ==
    LET total_stages == TotalStagesViewer(wells, well_name)
        completed == Cardinality({id \in DOMAIN kpi_df : kpi_df[id].well = well_name})
    IN [total_stages |-> total_stages, completed |-> completed,
        remaining |-> total_stages - completed]

\* df[column].value_counts().to_dict().get(cond, 0)
ValueCount(quality_data, column, cond) ==
    Cardinality({id \in DOMAIN quality_data : quality_data[id][column] = cond})

\* the keys of df[column].value_counts().to_dict()
Values(quality_data, column) ==
    {quality_data[id][column] : id \in DOMAIN quality_data}

\* a summary that is computed whether or not there are records
NeverEmpty(quality_data) == FALSE

\* "if not quality_df.empty"
QualityEmpty(quality_data) == DOMAIN quality_data = {}

\* a rate table over the pre-sand conditions only
RateTablePreOnly(quality_data) ==
    LET rate_conditions == Sorted(Values(quality_data, "pre_sand"))
    IN [i \in DOMAIN rate_conditions |->
           LET cond == rate_conditions[i]
               pre == ValueCount(quality_data, "pre_sand", cond)
               post == ValueCount(quality_data, "post_sand", cond)
           IN [Condition |-> cond, Pre |-> pre, Post |-> post, Total |-> pre + post]]

\* rate_table, before the percent column
RateTable(quality_data) ==
    LET rate_conditions == Sorted(Values(quality_data, "pre_sand")
                                  \cup Values(quality_data, "post_sand"))
    IN [i \in DOMAIN rate_conditions |->
           LET cond == rate_conditions[i]
               pre == ValueCount(quality_data, "pre_sand", cond)
               post == ValueCount(quality_data, "post_sand", cond)
           IN [Condition |-> cond, Pre |-> pre, Post |-> post, Total |-> pre + post]]

\* rate_df["Percent Total"] = rate_df["Total"] / total_rate * 100
WithPercent(rate_table, total_rate) ==
    [i \in DOMAIN rate_table |->
        rate_table[i] @@ [Percent |-> Frac(rate_table[i].Total * 100, total_rate)]]

\* spp_table, a row per key of spp_counts
SppTable(quality_data, spp_total) ==
    [k \in Values(quality_data, "spp") |->
        LET v == ValueCount(quality_data, "spp", k)
        IN [Count |-> v, Percent |-> Frac(v * 100, spp_total)]]

\* the Well Quality Summary of the selected well
QualitySummary(store, selected_well) ==
    LET quality_data == [id \in {i \in DOMAIN store : store[i].well = selected_well}
                            |-> store[id]]
        rate_table == RateTable(quality_data)
        total_rate == SumSeq([i \in DOMAIN rate_table |-> rate_table[i].Total])
        spp_total == Cardinality(DOMAIN quality_data)
    IN IF QualityEmpty(quality_data)
       THEN [divided |-> FALSE, total_rate |-> 0, spp_total |-> 0,
             rate_table |-> <<>>, spp_table |-> <<>>]
       ELSE [divided |-> TRUE, total_rate |-> total_rate, spp_total |-> spp_total,
             rate_table |-> WithPercent(rate_table, total_rate),
             spp_table |-> SppTable(quality_data, spp_total)]

\* one run of the viewer with a job and a well selected
ViewJob(selected_job, selected_well) ==
    LET wells == jobs[selected_job].wells
        kpi_df == ViewerDf(kpi_data[selected_job])
        ids == DOMAIN kpi_df
        job_start == CHOOSE t \in {kpi_df[i].start : i \in ids} :
                        \A i \in ids : t <= kpi_df[i].start
        job_end_estimate == CHOOSE t \in {kpi_df[i].end : i \in ids} :
                               \A i \in ids : kpi_df[i].end <= t
    IN /\ selected_job \in DOMAIN jobs
       /\ DictHas(wells, selected_well)
       /\ IF DOMAIN kpi_data[selected_job] = {}
          THEN out' = [handler |-> "viewer", selected_job |-> selected_job,
                       empty |-> TRUE]
          ELSE out' = [handler |-> "viewer", selected_job |-> selected_job,
                       empty |-> FALSE,
                       job_start |-> job_start,
                       job_end_estimate |-> job_end_estimate,
                       summary |-> [well_name \in {kpi_df[i].well : i \in ids} |->
                                       SummaryLine(wells, kpi_df, well_name)],
                       selected_well |-> selected_well,
                       quality |-> QualitySummary(quality[selected_job], selected_well)]
       /\ UNCHANGED <<jobs, kpi_data, quality>>

(* --------------------------- specifications ---------------------------- *)

\* the job the sheets are uploaded to
KpiJob == "25-052"

InitKpi ==
    /\ \E entries \in JobFormEntries :
          jobs = (KpiJob :> JobDocument(KpiJob, "Seismos", "Pad-1", WellsOf(entries),
                                        "Sequential", {}))
    /\ kpi_data = [j \in JobNumbers |-> NoDocs]
    /\ quality = [j \in JobNumbers |-> NoDocs]
    /\ out = [handler |-> "start"]

NextKpi ==
    \/ /\ UploaderEmpty
       /\ \E rows \in SeqsUpTo(SheetRows, MaxRows) : UploadKpi(KpiJob, rows)
    \/ RemoveFile
    \/ \E selected_well \in {WellA, WellB} : ViewJob(KpiJob, selected_well)

SpecKpi == InitKpi /\ [][NextKpi]_vars

\* the wells of the job the quality checklist is filled in for
QualityWells == WellsOf(<<Entry(WellA, MaxStages), Entry(WellB, 1)>>)

InitQuality ==
    /\ jobs = (KpiJob :> JobDocument(KpiJob, "Seismos", "Pad-1", QualityWells,
                                     "Sequential", {}))
    /\ kpi_data = [j \in JobNumbers |->
                      IF j = KpiJob
                      THEN SaveRows(NoDocs, <<[well |-> WellA, stage |-> 1,
                                               start |-> 0, end |-> 1]>>)
                      ELSE NoDocs]
    /\ quality = [j \in JobNumbers |-> NoDocs]
    /\ out = [handler |-> "start"]

NextQuality ==
    \/ \E qc_well \in {WellA, WellB}, qc_stage \in 1..MaxStages,
          pre_sand \in PreSandPicked, post_sand \in PostSandPicked,
          spp \in SppPicked, comments \in CommentsTyped :
          SaveQuality(KpiJob, qc_well, qc_stage, pre_sand, post_sand, spp, comments)
    \/ \E selected_well \in {WellA, WellB} : ViewJob(KpiJob, selected_well)

SpecQuality == InitQuality /\ [][NextQuality]_vars

(* ------------------------- claims: definitions ------------------------- *)

\* the cell holds the text of a timestamp
Parses(cell) == cell \in Range(HourText)

HourOf(cell) == CHOOSE h \in Hours : HourText[h + 1] = cell

\* the positions of the rows of a sheet whose two times both parse
ValidRows(rows) ==
    {i \in DOMAIN rows : Parses(rows[i].start) /\ Parses(rows[i].end)}

ValidRowsOf(rows, well) == {i \in ValidRows(rows) : rows[i].well = well}

\* the k-th valid position, counting from 1
KthValid(rows, k) ==
    CHOOSE i \in ValidRows(rows) :
        Cardinality({j \in ValidRows(rows) : j < i}) = k - 1

RECURSIVE SumOver(_, _)
\* the sum of f over the finite set S
SumOver(S, f) ==
    IF S = {} THEN 0
    ELSE LET x == CHOOSE x \in S : TRUE IN f[x] + SumOver(S \ {x}, f)

\* the greatest value of f over the non-empty finite set S
MaxOver(S, f) == CHOOSE m \in {f[x] : x \in S} : \A x \in S : f[x] <= m

RowDuration(rows) ==
    [i \in ValidRows(rows) |-> HourOf(rows[i].end) - HourOf(rows[i].start)]

RowEnd(rows) == [i \in ValidRows(rows) |-> HourOf(rows[i].end)]

\* the wells the job of the page declares
PageWells == jobs[out.selected_job].wells

\* the target the specification resolves for an observed well name
ClaimedTarget(wells, well) ==
    LET exact == {i \in DOMAIN wells : wells[i].key = well}
        fuzzy == {i \in DOMAIN wells :
                     \/ IsSubstring(wells[i].key, well)
                     \/ IsSubstring(well, wells[i].key)}
    IN IF exact # {} THEN wells[CHOOSE i \in exact : TRUE].val
       ELSE IF fuzzy # {}
            THEN wells[CHOOSE i \in fuzzy : \A k \in fuzzy : i <= k].val
            ELSE 0

UploadPage == out.handler = "kpi_upload"
ViewerPage == out.handler = "viewer" /\ ~out.empty

(* --------------------------------- C1 ---------------------------------- *)

\* C1: wherever a target stage count is resolved for an observed well, in the
\* viewer's completion summary and in the editor's completion estimate, it is
\* the count declared for the well, else the count of the first declared
\* well (in declaration order) whose name contains or is contained in the
\* observed name, else 0.
C1_TargetResolution ==
    /\ ViewerPage =>
          \A w \in DOMAIN out.summary :
              out.summary[w].total_stages = ClaimedTarget(PageWells, w)
    /\ UploadPage =>
          \A w \in DOMAIN out.est :
              out.est[w].total_stages = ClaimedTarget(PageWells, w)

(* --------------------------------- C2 ---------------------------------- *)

\* C2: when no row of an uploaded sheet has a start and an end time that both
\* parse, the pad completion estimate is reported as undefined and no fault
\* is raised.
C2_NoValidRecordsNoFault ==
    (UploadPage /\ ValidRows(out.rows) = {}) =>
        (out.pad_end = NoEstimate /\ ~out.fault)

(* --------------------------------- C3 ---------------------------------- *)

\* C3: a row whose start or end time is blank or does not parse contributes to
\* no derived result (normalized records, per-well stage count, average
\* duration, last end time, idle gaps, stored stage documents); the rows whose
\* two times parse are kept in their original relative order; and there are
\* at most as many normalized records as input rows.
C3_ExclusionInvariant ==
    /\ \A j \in JobNumbers : \A id \in DOMAIN kpi_data[j] :
          kpi_data[j][id].start \in Hours /\ kpi_data[j][id].end \in Hours
    /\ UploadPage =>
          LET rows == out.rows
              kpi_df == out.kpi_df
          IN /\ Len(kpi_df) = Cardinality(ValidRows(rows))
             /\ Len(kpi_df) <= Len(rows)
             /\ \A k \in DOMAIN kpi_df :
                   LET row == rows[KthValid(rows, k)]
                   IN kpi_df[k] = [well |-> row.well, stage |-> row.stage,
                                   start |-> HourOf(row.start),
                                   end |-> HourOf(row.end)]
             /\ DOMAIN out.est = {rows[i].well : i \in ValidRows(rows)}
             /\ DOMAIN out.idle = DOMAIN out.est
             /\ out.uploaded <= Cardinality(ValidRows(rows))
             /\ \A w \in DOMAIN out.est :
                   LET S == ValidRowsOf(rows, w)
                       e == out.est[w]
                   IN /\ e.stages_done = Cardinality(S)
                      /\ e.last_end = MaxOver(S, RowEnd(rows))
                      /\ e.avg_duration.num * Cardinality(S)
                            = e.avg_duration.den * SumOver(S, RowDuration(rows))
                      /\ Len(out.idle[w]) = Cardinality(S) - 1

\* an upload whose first row has a blank start time and whose second row is
\* valid and stored
C3_Witness ==
    /\ UploadPage
    /\ Len(out.rows) = 2
    /\ out.rows[1].start = BlankCell
    /\ ValidRows(out.rows) = {2}
    /\ Len(out.kpi_df) = 1
    /\ DocId(out.rows[2].well, out.rows[2].stage) \in DOMAIN kpi_data[out.selected_job]
    /\ out.uploaded = 1

(* --------------------------------- C4 ---------------------------------- *)

\* the figures of the estimate of one well of the page
WellFigures(w) ==
    LET S == ValidRowsOf(out.rows, w)
        n == Cardinality(S)
        e == out.est[w]
        target == e.total_stages
        last == MaxOver(S, RowEnd(out.rows))
        total == SumOver(S, RowDuration(out.rows))
    IN /\ n >= 1
       /\ e.stages_done = n
       /\ e.stages_remaining = target - n
       /\ e.est_end.den > 0
       /\ e.est_end.num * n = e.est_end.den * (last * n + (target - n) * total)

EarlierThanLastEnd(e) == e.est_end.num < e.last_end * e.est_end.den

\* C4, as stated: for every well with a valid record, stages_completed is the
\* number of its valid records, stages_remaining = target - stages_completed
\* without clamping, estimated_completion_time = last end time +
\* stages_remaining * mean duration, and a negative remaining yields an
\* estimate earlier than the last end time.
C4_WellEstimateAsStated ==
    UploadPage =>
        \A w \in DOMAIN out.est :
            /\ WellFigures(w)
            /\ out.est[w].stages_remaining < 0 => EarlierThanLastEnd(out.est[w])

\* C4, amended: as above, but a negative remaining yields an estimate earlier
\* than the last end time when the well's mean duration is positive.
C4_WellEstimate ==
    UploadPage =>
        \A w \in DOMAIN out.est :
            /\ WellFigures(w)
            /\ (/\ out.est[w].stages_remaining < 0
                /\ SumOver(ValidRowsOf(out.rows, w), RowDuration(out.rows)) > 0)
               => EarlierThanLastEnd(out.est[w])

\* a well declared with one stage and two valid rows of one hour each: one
\* stage more than declared, estimate an hour before the last end
C4_Witness ==
    /\ UploadPage
    /\ \E w \in DOMAIN out.est :
          /\ out.est[w].stages_done = 2
          /\ out.est[w].stages_remaining = -1
          /\ out.est[w].avg_duration = [num |-> 1, den |-> 1]
          /\ out.est[w].est_end = [num |-> out.est[w].last_end - 1, den |-> 1]

(* --------------------------------- C5 ---------------------------------- *)

\* the stage documents of one well in the viewer's job
DocsOf(store, well) == {id \in DOMAIN store : store[id].well = well}

\* C5: a pad completion estimate that is reported, by the editor or by the
\* viewer, is the maximum of the per-well estimated completion times (last
\* end + remaining * mean duration) over the wells with a valid record.
C5_PadEstimateIsMax ==
    /\ (UploadPage /\ ~out.fault) =>
          /\ \E w \in DOMAIN out.est : out.pad_end = out.est[w].est_end
          /\ \A w \in DOMAIN out.est : FracLeq(out.est[w].est_end, out.pad_end)
    /\ ViewerPage =>
          LET store == kpi_data[out.selected_job]
              wells == {store[id].well : id \in DOMAIN store}
              n(w) == Cardinality(DocsOf(store, w))
              num(w) ==
                  LET S == DocsOf(store, w)
                      last == MaxOver(S, [id \in S |-> store[id].end])
                      total == SumOver(S, [id \in S |-> store[id].end - store[id].start])
                  IN last * n(w) + (ClaimedTarget(PageWells, w) - n(w)) * total
          IN /\ \E w \in wells : out.job_end_estimate * n(w) = num(w)
             /\ \A w \in wells : num(w) <= out.job_end_estimate * n(w)

(* --------------------------------- C6 ---------------------------------- *)

\* the records a quality store holds for a (well, stage) pair
RecordsOf(store, well, stage) ==
    {id \in DOMAIN store : store[id].well = well /\ store[id].stage = stage}

\* C6: the quality store of a job holds at most one record per (well, stage)
\* pair; after a save the record of the saved pair carries the values of
\* that save; and the save leaves the records of every other pair, and the
\* stores of the other jobs, unchanged.
C6_QualityUpsert ==
    [][ /\ \A j \in JobNumbers : \A a \in DOMAIN quality'[j] :
              RecordsOf(quality'[j], quality'[j][a].well, quality'[j][a].stage) = {a}
        /\ (out'.handler = "quality_form") =>
              LET before == quality[out'.qc_job]
                  after == quality'[out'.qc_job]
                  saved == RecordsOf(after, out'.qc_well, out'.qc_stage)
              IN /\ Cardinality(saved) = 1
                 /\ \A id \in saved :
                       /\ after[id].pre_sand = out'.pre_sand
                       /\ after[id].post_sand = out'.post_sand
                       /\ after[id].spp = out'.spp
                       /\ after[id].comments = out'.comments
                 /\ DOMAIN after \ saved
                       = DOMAIN before \ RecordsOf(before, out'.qc_well, out'.qc_stage)
                 /\ \A id \in DOMAIN after \ saved : after[id] = before[id]
                 /\ \A j \in JobNumbers \ {out'.qc_job} : quality'[j] = quality[j]
      ]_vars

\* a store with the records of three pairs, two of them stages of one well,
\* the last save being that of one of the two
C6_Witness ==
    /\ out.handler = "quality_form"
    /\ Cardinality(DOMAIN quality[out.qc_job]) = 3
    /\ out.qc_well = WellA
    /\ \E id \in DOMAIN quality[out.qc_job] :
          /\ quality[out.qc_job][id].well = WellA
          /\ quality[out.qc_job][id].stage # out.qc_stage
          /\ quality[out.qc_job][id].pre_sand # out.pre_sand

(* --------------------------------- C7 ---------------------------------- *)

\* the condition names in lexicographic (code point) order
LexOrder ==
    <<"Bad", "Drop not performed", "Good", "Medium", "No Usable Drop", "No post sand">>

LexPosition(cond) == CHOOSE i \in DOMAIN LexOrder : LexOrder[i] = cond

\* the quality records of the well selected on the viewer's page
SelectedRecords ==
    {id \in DOMAIN quality[out.selected_job] :
        quality[out.selected_job][id].well = out.selected_well}

QualityViewed == ViewerPage /\ SelectedRecords # {}

\* C7: for a non-empty set of quality records of one well the rate table has
\* exactly one row per condition found in the pre-sand or post-sand values,
\* in lexicographic order, with pre and post counts of the records carrying
\* the condition on that side, total = pre + post and percent = total / sum
\* of totals * 100; the totals add up to the grand total and the percentages
\* to 100.
C7_RateTable ==
    QualityViewed =>
        LET recs == SelectedRecords
            doc == quality[out.selected_job]
            table == out.quality.rate_table
            grand == 2 * Cardinality(recs)
            found == {doc[id].pre_sand : id \in recs} \cup {doc[id].post_sand : id \in recs}
        IN /\ {table[i].Condition : i \in DOMAIN table} = found
           /\ Len(table) = Cardinality(found)
           /\ \A i \in DOMAIN table : \A k \in DOMAIN table :
                 i < k => LexPosition(table[i].Condition) < LexPosition(table[k].Condition)
           /\ \A i \in DOMAIN table :
                 LET row == table[i]
                 IN /\ row.Pre = Cardinality({id \in recs : doc[id].pre_sand = row.Condition})
                    /\ row.Post = Cardinality({id \in recs : doc[id].post_sand = row.Condition})
                    /\ row.Total = row.Pre + row.Post
                    /\ row.Percent.den > 0
                    /\ row.Percent.num * grand = row.Total * 100 * row.Percent.den
                    /\ grand % row.Percent.den = 0
           /\ SumOver(DOMAIN table, [i \in DOMAIN table |-> table[i].Total]) = grand
           /\ SumOver(DOMAIN table,
                      [i \in DOMAIN table |->
                          table[i].Percent.num * (grand \div table[i].Percent.den)])
                 = 100 * grand

\* a table with a condition found only before the sand, one found only after
\* it and one found on both sides
C7_Witness ==
    /\ QualityViewed
    /\ \E i \in DOMAIN out.quality.rate_table :
          out.quality.rate_table[i].Pre = 0
    /\ \E i \in DOMAIN out.quality.rate_table :
          out.quality.rate_table[i].Post = 0
    /\ \E i \in DOMAIN out.quality.rate_table :
          out.quality.rate_table[i].Pre > 0 /\ out.quality.rate_table[i].Post > 0

(* --------------------------------- C8 ---------------------------------- *)

\* C8: for a well without quality records the summary has empty rate and SPP
\* tables and divides nothing; whenever percentages are computed, the sum of
\* the totals and the sum of the SPP counts they are divided by are positive.
C8_ZeroGuard ==
    ViewerPage =>
        /\ SelectedRecords = {} =>
              /\ ~out.quality.divided
              /\ out.quality.rate_table = <<>>
              /\ out.quality.spp_table = <<>>
        /\ out.quality.divided =>
              /\ out.quality.total_rate > 0
              /\ out.quality.spp_total > 0
              /\ out.quality.spp_total
                    = SumOver(DOMAIN out.quality.spp_table,
                              [k \in DOMAIN out.quality.spp_table |->
                                  out.quality.spp_table[k].Count])

\* the summary of a well without records, in a job whose other well has some
C8_Witness ==
    /\ ViewerPage
    /\ SelectedRecords = {}
    /\ DOMAIN quality[out.selected_job] # {}
    /\ ~out.quality.divided

(* --------------------------------- C9 ---------------------------------- *)

\* C9: an upload neither modifies nor removes a stage document that was in
\* the store before it, and an upload whose valid rows all have ids already
\* in the store changes nothing.
C9_StageDocsImmutable ==
    [][ /\ \A j \in JobNumbers : \A id \in DOMAIN kpi_data[j] :
              id \in DOMAIN kpi_data'[j] /\ kpi_data'[j][id] = kpi_data[j][id]
        /\ (/\ out'.handler = "kpi_upload"
            /\ \A i \in ValidRows(out'.rows) :
                  DocId(out'.rows[i].well, out'.rows[i].stage)
                      \in DOMAIN kpi_data[out'.selected_job])
           => (kpi_data' = kpi_data /\ out'.uploaded = 0)
      ]_vars

\* a sheet uploaded again with other times for a stage that is stored: nothing
\* is uploaded and the stored document keeps its times
C9_Witness ==
    /\ UploadPage
    /\ out.uploaded = 0
    /\ \E k \in DOMAIN out.kpi_df :
          LET id == DocId(out.kpi_df[k].well, out.kpi_df[k].stage)
          IN /\ id \in DOMAIN kpi_data[out.selected_job]
             /\ kpi_data[out.selected_job][id] # out.kpi_df[k]

(* --------------------------------- C10 --------------------------------- *)

JobFormStep == out'.handler = "job_form"
FormFieldEmpty == out'.job_id = "" \/ out'.operator = "" \/ out'.pad = ""

\* a stored job document is changed by no step, only removed by a deletion,
\* and a submission with an empty field writes nothing
JobsKept ==
    /\ \A j \in DOMAIN jobs :
          \/ j \in DOMAIN jobs' /\ jobs'[j] = jobs[j]
          \/ j \notin DOMAIN jobs' /\ out'.handler = "delete" /\ out'.job_id = j
    /\ (JobFormStep /\ FormFieldEmpty) => jobs' = jobs

\* C10, as stated: submitting a job whose number is in the store reports an
\* error and leaves the store unchanged, a job document keeps the fields of
\* its first save until the job is deleted, and a submission with an empty
\* job number, operator or pad writes nothing.
C10_NeverOverwritesAsStated ==
    [][ /\ JobsKept
        /\ (JobFormStep /\ out'.job_id \in DOMAIN jobs)
              => (jobs' = jobs /\ out'.msg = "error")
      ]_vars

\* C10, amended: the error is reported when the submitted form is complete
\* (job number, operator and pad not empty); the rest as stated.
C10_NeverOverwrites ==
    [][ /\ JobsKept
        /\ (JobFormStep /\ out'.job_id \in DOMAIN jobs)
              => /\ jobs' = jobs
                 /\ out'.msg = (IF FormFieldEmpty THEN "none" ELSE "error")
      ]_vars

\* a complete form with the number of a stored job was refused while the
\* store held two jobs
C10_Witness ==
    /\ out.handler = "job_form"
    /\ out.msg = "error"
    /\ out.job_id \in DOMAIN jobs
    /\ Cardinality(DOMAIN jobs) = 2

====
